---- MODULE Spec2Model ----
(***************************************************************************)
(* Model of product_hunt_mcp/http_server.py: the module-level registry     *)
(* reference mcp_server, the REST handlers (/, /health, /tools,            *)
(* POST /tools/{tool_name}) and the SSE producer generate_sse of GET /sse/.*)
(*                                                                         *)
(* Every action is one run of a coroutine between two suspension points    *)
(* (a yield, an await, a return): asyncio runs such a run without          *)
(* interleaving anything else on the event-loop thread.                    *)
(***************************************************************************)
EXTENDS Integers, Sequences, FiniteSets, TLC

(* ------------------------------- bounds ------------------------------- *)

\* longest sequence of register calls made by the registration routines
MaxCalls == 2

\* number of heartbeat events the stream log records per session
MaxHeartbeats == 1

\* largest reading of the wall clock
MaxClock == 1

(* ------------------------------ universes ----------------------------- *)

Sessions == {"s1", "s2"}

ToolNames == {"get_posts", "get_user"}

\* a name that no registration routine registers
UnknownName == "unknown_name"

\* a tool_info object without a description attribute
NoDescriptionAttr == "<no description attribute>"

ToolInfos == {"Get posts", "Get a user", NoDescriptionAttr}

RegisterCalls == ToolNames \X ToolInfos

CallSeqs == UNION {[1..n -> RegisterCalls] : n \in 0..MaxCalls}

\* os.getenv returns None for an unset variable
EnvUnset == "<None>"

Tokens == {EnvUnset, "", "ph_token"}

\* request.headers.get returns None for an absent header
HeaderAbsent == "<None>"

ContentTypes == {"application/json", "application/json; charset=utf-8", HeaderAbsent}

RawBodies == {"{\"x\": 1}", "{}", "{\"x\": "}

\* exceptions (subclasses of Exception) that event production can raise
Faults == {[cls |-> "TypeError", args |-> <<"Object is not JSON serializable">>],
           [cls |-> "RuntimeError", args |-> <<"dictionary changed size during iteration">>]}

NoFault == [cls |-> "<none>", args |-> <<>>]

(* ------------------------------- state -------------------------------- *)

VARIABLES
    mcp_server,   \* the global registry reference (None or a FastMCP object)
    calls,        \* history: the register calls made on the registry
    init_log,     \* history: the constructor and registration routines run
    clock,        \* the local wall-clock time that datetime.now() reads
    pc,           \* per session: where generate_sse is suspended
    events,       \* per session: the events yielded so far
    connected,    \* per session: the transport still has its client
    fault,        \* per session: the exception raised inside the try block
    raised,       \* per session: what left generate_sse when it was closed
    loop,         \* the task occupying the event-loop thread, or "free"
    response      \* the last HTTP response produced by a REST handler

vars == <<mcp_server, calls, init_log, clock, pc, events, connected, fault, raised, loop, response>>

sessionVars == <<pc, events, connected, fault, raised>>

(* ------------------------------ registry ------------------------------ *)

None == [kind |-> "NoneType"]

\* FastMCP("Product Hunt MCP"): tools is an insertion-ordered dict, kept as a
\* sequence of <<name, tool_info>> with distinct names; has_tools tells whether
\* the object exposes the attribute `tools` that the handlers probe.
FastMCP(has_tools) == [kind |-> "FastMCP", has_tools |-> has_tools, tools |-> <<>>]

RECURSIVE IndexOf(_, _, _)
IndexOf(tools, name, i) ==
    IF i > Len(tools) THEN 0
    ELSE IF tools[i][1] = name THEN i
    ELSE IndexOf(tools, name, i + 1)

\* register(name, description): insert, or overwrite in place (last write wins)
register(tools, name, info) ==
    LET i == IndexOf(tools, name, 1) IN
    IF i = 0 THEN Append(tools, <<name, info>>)
    ELSE [tools EXCEPT ![i] = <<name, info>>]

RECURSIVE register_all(_, _)
register_all(tools, cs) ==
    IF cs = <<>> THEN tools
    ELSE register_all(register(tools, Head(cs)[1], Head(cs)[2]), Tail(cs))

\* getattr(tool_info, 'description', 'No description available')
description(info) ==
    IF info = NoDescriptionAttr THEN "No description available" ELSE info

\* the loop over mcp_server.tools.items(), guarded by hasattr(mcp_server, 'tools')
tools_list(server) ==
    IF server.has_tools
    THEN [i \in 1..Len(server.tools) |->
            [name |-> server.tools[i][1], description |-> description(server.tools[i][2])]]
    ELSE <<>>

(* ------------------------------- Init --------------------------------- *)

NoResponse == [endpoint |-> "<none>", status |-> 0]

Init ==
    /\ mcp_server = None
    /\ calls = <<>>
    /\ init_log = <<>>
    /\ clock = 0
    /\ pc = [s \in Sessions |-> "new"]
    /\ events = [s \in Sessions |-> <<>>]
    /\ connected = [s \in Sessions |-> FALSE]
    /\ fault = [s \in Sessions |-> NoFault]
    /\ raised = [s \in Sessions |-> "none"]
    /\ loop = "free"
    /\ response = NoResponse

(* ------------------------------ startup ------------------------------- *)

\* the six registration routines, in the order initialize_mcp_server calls them
Routines == <<"register_server_tools", "register_post_tools", "register_comment_tools",
              "register_collection_tools", "register_topic_tools", "register_user_tools">>

\* the entries of init_log for a first call in which routine number failing
\* raises (0: none does): the constructor, then the routines that were run
first_call_log(failing) ==
    <<[call |-> "FastMCP", outcome |-> "returned"]>> \o
    [i \in 1..(IF failing = 0 THEN Len(Routines) ELSE failing) |->
        [call |-> Routines[i], outcome |-> IF i = failing THEN "raised" ELSE "returned"]]

\* variant: no `if mcp_server is None` guard, every call builds a registry
initialize_mcp_server_unguarded(cs, has_tools, failing) ==
    /\ loop = "free"
    /\ mcp_server' = [FastMCP(has_tools) EXCEPT !.tools = register_all(<<>>, cs)]
    /\ calls' = cs
    /\ init_log' = init_log \o first_call_log(failing)
    /\ UNCHANGED <<clock, sessionVars, loop, response>>

\* initialize_mcp_server(): the first call binds the global to a new registry
\* and then runs the six registration routines, which make the register calls
\* cs; the reference is assigned before the routines run, so a routine that
\* raises leaves it bound. Later calls return the registry that is there.
initialize_mcp_server(cs, has_tools, failing) ==
    /\ loop = "free"
    /\ IF mcp_server = None
       THEN /\ mcp_server' = [FastMCP(has_tools) EXCEPT !.tools = register_all(<<>>, cs)]
            /\ calls' = cs
            /\ init_log' = first_call_log(failing)
       ELSE UNCHANGED <<mcp_server, calls, init_log>>
    /\ UNCHANGED <<clock, sessionVars, loop, response>>

(* --------------------------- REST handlers ---------------------------- *)

HTTPException(endpoint, status_code, detail) ==
    [endpoint |-> endpoint, status |-> status_code, detail |-> detail]

Ok(endpoint, body) == [endpoint |-> endpoint, status |-> 200, body |-> body]

\* variant: `if token is None` instead of `if not token`
truthy_not_none(token) == token # EnvUnset

\* Python truthiness of the value os.getenv returned (None and "" are falsy)
truthy(token) == token # EnvUnset /\ token # ""

\* GET /
root ==
    /\ loop = "free"
    /\ response' = Ok("/", [service |-> "Product Hunt MCP HTTP Server",
                            version |-> "0.1.0", status |-> "running"])
    /\ UNCHANGED <<mcp_server, calls, init_log, clock, sessionVars, loop>>

\* variant: no 503 for the credential, which the 200 body reports as missing
health_response_reporting(server, token) ==
    IF server = None
    THEN HTTPException("/health", 503, "MCP server not initialized")
    ELSE Ok("/health", [status |-> "healthy", mcp_server |-> "initialized",
                        product_hunt_token |->
                            IF truthy(token) THEN "configured" ELSE "missing"])

\* the response of GET /health for a registry reference and an environment value
health_response(server, token) ==
    IF server = None
    THEN HTTPException("/health", 503, "MCP server not initialized")
    ELSE IF ~truthy(token)
    THEN HTTPException("/health", 503, "PRODUCT_HUNT_TOKEN not configured")
    ELSE Ok("/health", [status |-> "healthy", mcp_server |-> "initialized",
                        product_hunt_token |->
                            IF truthy(token) THEN "configured" ELSE "missing"])

\* GET /health; token is the value of PRODUCT_HUNT_TOKEN in the environment
health_check(token) ==
    /\ loop = "free"
    /\ response' = health_response(mcp_server, token)
    /\ UNCHANGED <<mcp_server, calls, init_log, clock, sessionVars, loop>>

tools_response(server) ==
    IF server = None
    THEN HTTPException("/tools", 503, "MCP server not initialized")
    ELSE LET tools == tools_list(server) IN
         Ok("/tools", [tools |-> tools, count |-> Len(tools)])

\* GET /tools
list_tools ==
    /\ loop = "free"
    /\ response' = tools_response(mcp_server)
    /\ UNCHANGED <<mcp_server, calls, init_log, clock, sessionVars, loop>>

\* json.loads on the request body: a JSON object is kept as its set of
\* <<key, value>> members; a malformed body raises JSONDecodeError
json_valid(raw) == raw \in {"{\"x\": 1}", "{}"}

json_loads(raw) == IF raw = "{\"x\": 1}" THEN {<<"x", 1>>} ELSE {}

json_error(raw) == <<"Expecting value", raw>>

\* what a client sends for a JSON object
json_dumps(obj) == IF obj = {} THEN "{}" ELSE "{\"x\": 1}"

registered_names(server) == {server.tools[i][1] : i \in 1..Len(server.tools)}

\* variant: the tool name is looked up in the registry before the echo
execute_response_validating(server, tool_name, content_type, raw) ==
    IF server = None
    THEN HTTPException("/tools/{tool_name}", 503, "MCP server not initialized")
    ELSE IF tool_name \notin registered_names(server)
    THEN HTTPException("/tools/{tool_name}", 404, <<"Unknown tool: ", tool_name>>)
    ELSE Ok("/tools/{tool_name}",
            [tool |-> tool_name,
             status |-> "executed",
             input |-> IF content_type = "application/json" THEN json_loads(raw) ELSE {},
             message |-> <<"Tool ", tool_name, " executed successfully">>])

\* the media type of a content-type header value, parameters dropped
media_type(content_type) ==
    IF content_type = "application/json; charset=utf-8" THEN "application/json"
    ELSE content_type

\* variant: the header is matched on its media type, not on the whole value
execute_response_media_type(server, tool_name, content_type, raw) ==
    IF server = None
    THEN HTTPException("/tools/{tool_name}", 503, "MCP server not initialized")
    ELSE IF media_type(content_type) = "application/json" /\ ~json_valid(raw)
    THEN HTTPException("/tools/{tool_name}", 500,
                       <<"Tool execution failed: ", json_error(raw)>>)
    ELSE Ok("/tools/{tool_name}",
            [tool |-> tool_name,
             status |-> "executed",
             input |-> IF media_type(content_type) = "application/json"
                       THEN json_loads(raw) ELSE {},
             message |-> <<"Tool ", tool_name, " executed successfully">>])

execute_response(server, tool_name, content_type, raw) ==
    IF server = None
    THEN HTTPException("/tools/{tool_name}", 503, "MCP server not initialized")
    ELSE IF content_type = "application/json" /\ ~json_valid(raw)
    THEN HTTPException("/tools/{tool_name}", 500,
                       <<"Tool execution failed: ", json_error(raw)>>)
    ELSE Ok("/tools/{tool_name}",
            [tool |-> tool_name,
             status |-> "executed",
             input |-> IF content_type = "application/json" THEN json_loads(raw) ELSE {},
             message |-> <<"Tool ", tool_name, " executed successfully">>])

\* variant: the handler registers the tool it is asked for before the echo
execute_tool_registering(tool_name, content_type, raw) ==
    /\ loop = "free"
    /\ response' = execute_response(mcp_server, tool_name, content_type, raw)
    /\ mcp_server' = IF mcp_server = None THEN mcp_server
                     ELSE [mcp_server EXCEPT !.tools = register(@, tool_name, NoDescriptionAttr)]
    /\ UNCHANGED <<calls, init_log, clock, sessionVars, loop>>

\* POST /tools/{tool_name}
execute_tool(tool_name, content_type, raw) ==
    /\ loop = "free"
    /\ response' = execute_response(mcp_server, tool_name, content_type, raw)
    /\ UNCHANGED <<mcp_server, calls, init_log, clock, sessionVars, loop>>

(* ------------------------ GET /sse/: generate_sse --------------------- *)

\* positions of generate_sse inside its try block
TryPositions == {"start", "y_connection", "y_server_info", "y_tools",
                 "y_product_hunt_data", "sleep", "y_heartbeat"}

OpenPositions == TryPositions \cup {"y_error"}

\* datetime.now().isoformat(), read when the event is built for its yield
timestamp == clock

connection_event ==
    [type |-> "connection", message |-> "Connected to Product Hunt MCP",
     timestamp |-> timestamp]

server_info_event ==
    [type |-> "server_info",
     data |-> [name |-> "Product Hunt MCP", version |-> "0.1.0", status |-> "ready"],
     timestamp |-> timestamp]

tools_event(server) ==
    [type |-> "tools", data |-> tools_list(server), timestamp |-> timestamp]

sample_data ==
    [type |-> "product_hunt_data",
     data |-> [message |-> "Product Hunt MCP server is ready",
               available_tools |-> <<"get_posts", "get_post_details", "search_topics",
                                     "get_user", "get_collections", "get_comments">>,
               status |-> "operational"],
     timestamp |-> timestamp]

heartbeat == [type |-> "heartbeat", timestamp |-> timestamp, status |-> "alive"]

\* str(e) of an exception: its single argument
str(e) == e.args[1]

error_data(e) == [type |-> "error", message |-> str(e), timestamp |-> timestamp]

Count(log, type) == Cardinality({i \in 1..Len(log) : log[i].type = type})

\* the stream log: every event is recorded, heartbeats up to MaxHeartbeats
Emit(log, ev) ==
    IF ev.type = "heartbeat" /\ Count(log, "heartbeat") >= MaxHeartbeats
    THEN log
    ELSE Append(log, ev)

\* the consumer (StreamingResponse) resumes the producer of session s only
\* while the event loop is free and no cancellation of s is pending
Resumable(s) == loop = "free" /\ connected[s]

\* `mcp_server and hasattr(mcp_server, 'tools')`
has_tools_attr(server) == IF server = None THEN FALSE ELSE server.has_tools

\* GET /sse/: the handler returns a StreamingResponse over a new generate_sse()
sse_endpoint(s) ==
    /\ loop = "free"
    /\ pc[s] = "new"
    /\ pc' = [pc EXCEPT ![s] = "start"]
    /\ connected' = [connected EXCEPT ![s] = TRUE]
    /\ UNCHANGED <<mcp_server, calls, init_log, clock, events, fault, raised, loop, response>>

yield_connection(s) ==
    /\ Resumable(s)
    /\ pc[s] = "start"
    /\ events' = [events EXCEPT ![s] = Emit(@, connection_event)]
    /\ pc' = [pc EXCEPT ![s] = "y_connection"]
    /\ UNCHANGED <<mcp_server, calls, init_log, clock, connected, fault, raised, loop, response>>

\* variant: the sample data yield is lost and the loop follows server_info
yield_server_info_skipping_data(s) ==
    /\ Resumable(s)
    /\ pc[s] = "y_connection"
    /\ events' = [events EXCEPT ![s] = Emit(@, server_info_event)]
    /\ pc' = [pc EXCEPT ![s] = "y_product_hunt_data"]
    /\ UNCHANGED <<mcp_server, calls, init_log, clock, connected, fault, raised, loop, response>>

yield_server_info(s) ==
    /\ Resumable(s)
    /\ pc[s] = "y_connection"
    /\ events' = [events EXCEPT ![s] = Emit(@, server_info_event)]
    /\ pc' = [pc EXCEPT ![s] = "y_server_info"]
    /\ UNCHANGED <<mcp_server, calls, init_log, clock, connected, fault, raised, loop, response>>

\* variant: mcp_server.tools is read without the `mcp_server and hasattr` test,
\* so a missing registry or attribute raises AttributeError into the handler
yield_tools_unchecked(s) ==
    /\ Resumable(s)
    /\ pc[s] = "y_server_info"
    /\ IF has_tools_attr(mcp_server)
       THEN /\ events' = [events EXCEPT ![s] = Emit(@, tools_event(mcp_server))]
            /\ pc' = [pc EXCEPT ![s] = "y_tools"]
       ELSE /\ events' = [events EXCEPT ![s] =
                             Emit(@, [type |-> "error",
                                      message |-> "object has no attribute 'tools'",
                                      timestamp |-> timestamp])]
            /\ pc' = [pc EXCEPT ![s] = "y_error"]
    /\ UNCHANGED <<mcp_server, calls, init_log, clock, connected, fault, raised, loop, response>>

yield_tools(s) ==
    /\ Resumable(s)
    /\ pc[s] = "y_server_info"
    /\ has_tools_attr(mcp_server)
    /\ events' = [events EXCEPT ![s] = Emit(@, tools_event(mcp_server))]
    /\ pc' = [pc EXCEPT ![s] = "y_tools"]
    /\ UNCHANGED <<mcp_server, calls, init_log, clock, connected, fault, raised, loop, response>>

yield_sample_data(s) ==
    /\ Resumable(s)
    /\ \/ pc[s] = "y_server_info" /\ ~has_tools_attr(mcp_server)
       \/ pc[s] = "y_tools"
    /\ events' = [events EXCEPT ![s] = Emit(@, sample_data)]
    /\ pc' = [pc EXCEPT ![s] = "y_product_hunt_data"]
    /\ UNCHANGED <<mcp_server, calls, init_log, clock, connected, fault, raised, loop, response>>

\* variant: a blocking sleep keeps the event-loop thread until it returns
await_sleep_blocking(s) ==
    /\ Resumable(s)
    /\ pc[s] \in {"y_product_hunt_data", "y_heartbeat"}
    /\ pc' = [pc EXCEPT ![s] = "sleep"]
    /\ loop' = s
    /\ UNCHANGED <<mcp_server, calls, init_log, clock, events, connected, fault, raised, response>>

\* variant: the wait is not inside `while True`
await_sleep_once(s) ==
    /\ Resumable(s)
    /\ pc[s] = "y_product_hunt_data"
    /\ pc' = [pc EXCEPT ![s] = "sleep"]
    /\ loop' = "free"
    /\ UNCHANGED <<mcp_server, calls, init_log, clock, events, connected, fault, raised, response>>

\* `await asyncio.sleep(30)`: the task suspends on a timer and gives the
\* event-loop thread back
await_sleep(s) ==
    /\ Resumable(s)
    /\ pc[s] \in {"y_product_hunt_data", "y_heartbeat"}
    /\ pc' = [pc EXCEPT ![s] = "sleep"]
    /\ loop' = "free"
    /\ UNCHANGED <<mcp_server, calls, init_log, clock, events, connected, fault, raised, response>>

\* the timer fires and the loop body yields the heartbeat
yield_heartbeat(s) ==
    /\ loop \in {"free", s}
    /\ connected[s]
    /\ pc[s] = "sleep"
    /\ events' = [events EXCEPT ![s] = Emit(@, heartbeat)]
    /\ pc' = [pc EXCEPT ![s] = "y_heartbeat"]
    /\ loop' = "free"
    /\ UNCHANGED <<mcp_server, calls, init_log, clock, connected, fault, raised, response>>

\* an Exception e raised by the code the producer runs next: `except Exception`
\* catches it and yields the error event
except_Exception(s, e) ==
    /\ loop \in {"free", s}
    /\ connected[s]
    /\ pc[s] \in TryPositions
    /\ fault' = [fault EXCEPT ![s] = e]
    /\ events' = [events EXCEPT ![s] = Emit(@, error_data(e))]
    /\ pc' = [pc EXCEPT ![s] = "y_error"]
    /\ loop' = "free"
    /\ UNCHANGED <<mcp_server, calls, init_log, clock, connected, raised, response>>

\* variant: the handler sits inside the loop, which goes on after the error
return_after_error_resuming(s) ==
    /\ Resumable(s)
    /\ pc[s] = "y_error"
    /\ pc' = [pc EXCEPT ![s] = "sleep"]
    /\ UNCHANGED <<mcp_server, calls, init_log, clock, events, connected, fault, raised, loop, response>>

\* resumed after the error event, the producer falls off its end
return_after_error(s) ==
    /\ Resumable(s)
    /\ pc[s] = "y_error"
    /\ pc' = [pc EXCEPT ![s] = "done"]
    /\ UNCHANGED <<mcp_server, calls, init_log, clock, events, connected, fault, raised, loop, response>>

\* variant: one disconnect notification shared by all sessions
client_disconnect_shared(s) ==
    /\ connected[s]
    /\ pc[s] \in OpenPositions
    /\ connected' = [t \in Sessions |-> FALSE]
    /\ UNCHANGED <<mcp_server, calls, init_log, clock, pc, events, fault, raised, loop, response>>

\* the transport reports that the client of session s went away
client_disconnect(s) ==
    /\ connected[s]
    /\ pc[s] \in OpenPositions
    /\ connected' = [connected EXCEPT ![s] = FALSE]
    /\ UNCHANGED <<mcp_server, calls, init_log, clock, pc, events, fault, raised, loop, response>>

\* what is thrown into the producer when its consumer goes away: CancelledError
\* at the await, GeneratorExit at a yield, nothing into an unstarted generator
thrown_at(position) ==
    IF position = "sleep" THEN "CancelledError"
    ELSE IF position = "start" THEN "none"
    ELSE "GeneratorExit"

\* variant: `except BaseException` catches what closes the producer
close_producer_caught(s) ==
    /\ loop = "free"
    /\ ~connected[s]
    /\ pc[s] \in OpenPositions
    /\ raised' = [raised EXCEPT ![s] = "none"]
    /\ events' = [events EXCEPT ![s] =
                     IF pc[s] \in TryPositions \ {"start"}
                     THEN Emit(@, [type |-> "error", message |-> thrown_at(pc[s]),
                                   timestamp |-> timestamp])
                     ELSE @]
    /\ pc' = [pc EXCEPT ![s] = "done"]
    /\ UNCHANGED <<mcp_server, calls, init_log, clock, connected, fault, loop, response>>

\* variant: only a producer suspended at a yield is closed; the task waiting
\* in asyncio.sleep is not cancelled
close_producer_at_yield(s) ==
    /\ loop = "free"
    /\ ~connected[s]
    /\ pc[s] \in OpenPositions \ {"sleep"}
    /\ raised' = [raised EXCEPT ![s] = thrown_at(pc[s])]
    /\ pc' = [pc EXCEPT ![s] = "done"]
    /\ UNCHANGED <<mcp_server, calls, init_log, clock, events, connected, fault, loop, response>>

\* neither is an Exception: the handler of the try block is not entered
close_producer(s) ==
    /\ loop = "free"
    /\ ~connected[s]
    /\ pc[s] \in OpenPositions
    /\ raised' = [raised EXCEPT ![s] = thrown_at(pc[s])]
    /\ pc' = [pc EXCEPT ![s] = "done"]
    /\ UNCHANGED <<mcp_server, calls, init_log, clock, events, connected, fault, loop, response>>

(* --------------------------- specifications --------------------------- *)

\* what the registration routines do is an input of the first call only: a
\* later call runs none of them
FirstCall == mcp_server = None

\* startup_event: the registration routines may make any calls, and any one
\* of them may raise
Startup ==
    \E cs \in (IF FirstCall THEN CallSeqs ELSE {<<>>}),
       has_tools \in (IF FirstCall THEN BOOLEAN ELSE {FALSE}),
       failing \in (IF FirstCall THEN 0..Len(Routines) ELSE {0}) :
        initialize_mcp_server(cs, has_tools, failing)

Health == \E token \in Tokens : health_check(token)

Execute ==
    \E tool_name \in ToolNames \cup {UnknownName}, content_type \in ContentTypes,
       raw \in RawBodies : execute_tool(tool_name, content_type, raw)

\* the registry and the REST handlers
Next ==
    \/ Startup
    \/ root
    \/ Health
    \/ list_tools
    \/ Execute

Spec == Init /\ [][Next]_vars

\* the registration sequences the session specifications start up with: no
\* tool, one tool, two tools
SessionCallSeqs ==
    {<<>>,
     <<<<"get_posts", "Get posts">>>>,
     <<<<"get_posts", "Get posts">>, <<"get_user", NoDescriptionAttr>>>>}

\* a startup_event that returned: sessions are served after it
SessionStartup ==
    \E cs \in (IF FirstCall THEN SessionCallSeqs ELSE {<<>>}),
       has_tools \in (IF FirstCall THEN BOOLEAN ELSE {FALSE}) :
        initialize_mcp_server(cs, has_tools, 0)

\* one resumption of the producer of session s by its consumer
Produce(s) ==
    \/ yield_connection(s)
    \/ yield_server_info(s)
    \/ yield_tools(s)
    \/ yield_sample_data(s)
    \/ await_sleep(s)
    \/ yield_heartbeat(s)
    \/ return_after_error(s)

RaiseFault(s) == \E e \in Faults : except_Exception(s, e)

\* the registry and the SSE sessions
NextSSE ==
    \/ SessionStartup
    \/ \E s \in Sessions : sse_endpoint(s)
    \/ \E s \in Sessions : Produce(s)
    \/ \E s \in Sessions : RaiseFault(s)
    \/ \E s \in Sessions : client_disconnect(s)
    \/ \E s \in Sessions : close_producer(s)

SpecSSE == Init /\ [][NextSSE]_vars

\* the event loop resumes a producer that can run, and a sleep timer fires
FairSSE == \A s \in Sessions : WF_vars(Produce(s))

SpecLive == SpecSSE /\ FairSSE

\* the consumer of a session whose client went away cancels the task of the
\* response and closes its producer
FairCancel == \A s \in Sessions : WF_vars(close_producer(s))

SpecCancel == SpecSSE /\ FairSSE /\ FairCancel

\* the local wall clock moves between two reads of datetime.now(): it advances
\* with time, and it is set back by a clock adjustment or at the end of
\* daylight saving time (datetime.now() is naive local time)
wall_clock(t) ==
    /\ t # clock
    /\ clock' = t
    /\ UNCHANGED <<mcp_server, calls, init_log, sessionVars, loop, response>>

\* the session that the specifications of a single session follow
Followed == "s1"

\* the steps of one session
FollowedSession ==
    \/ sse_endpoint(Followed)
    \/ Produce(Followed)
    \/ RaiseFault(Followed)
    \/ client_disconnect(Followed)
    \/ close_producer(Followed)

\* one SSE session under a wall clock that moves
NextClock ==
    \/ SessionStartup
    \/ \E t \in 0..MaxClock : wall_clock(t)
    \/ FollowedSession

SpecClock == Init /\ [][NextClock]_vars

\* a request served by one of the handlers: the four REST routes, and the
\* steps of an SSE session
Handler ==
    \/ root
    \/ Health
    \/ list_tools
    \/ Execute
    \/ FollowedSession

\* the whole application: startup, then requests of every route in any
\* interleaving with one SSE session
NextApp ==
    \/ SessionStartup
    \/ Handler

SpecApp == Init /\ [][NextApp]_vars

(* ------------------------------ claims -------------------------------- *)

Types(log) == [i \in 1..Len(log) |-> log[i].type]

IsError(ev) == ev.type = "error"

NotError(ev) == ev.type # "error"

\* a sequence of event types that is a prefix of
\* connection, server_info, [tools], product_hunt_data, heartbeat, heartbeat, ...
IsStreamPrefix(t) ==
    \A i \in 1..Len(t) :
        CASE i = 1 -> t[i] = "connection"
          [] i = 2 -> t[i] = "server_info"
          [] i = 3 -> t[i] \in {"tools", "product_hunt_data"}
          [] i = 4 -> t[i] = (IF t[3] = "tools" THEN "product_hunt_data" ELSE "heartbeat")
          [] OTHER -> t[i] = "heartbeat"

Faulted(s) == fault[s] # NoFault

\* C1: in every session the events other than an error are emitted in the
\* order connection, server_info, tools (if present), product_hunt_data and
\* only then heartbeats; no startup event is repeated or out of order and no
\* heartbeat precedes product_hunt_data.
C1_StartupOrder ==
    \A s \in Sessions :
        LET t == Types(SelectSeq(events[s], NotError)) IN
        /\ IsStreamPrefix(t)
        /\ \A i, j \in 1..Len(t) : i # j /\ t[i] = t[j] => t[i] = "heartbeat"
        /\ \A j \in 1..Len(t) :
               t[j] = "heartbeat" => \E i \in 1..(j - 1) : t[i] = "product_hunt_data"

C1_Witness ==
    \E s \in Sessions :
        Types(events[s]) = <<"connection", "server_info", "tools",
                             "product_hunt_data", "heartbeat">>

\* C2: once an exception was raised in the try block of a session, its stream
\* holds exactly one error event, which carries str(e) and is the last event
\* of the stream; the producer is at the error yield or finished, and no
\* exception left it.
C2_FaultGivesOneTerminalError ==
    \A s \in Sessions :
        Faulted(s) =>
            /\ Count(events[s], "error") = 1
            /\ events[s][Len(events[s])].type = "error"
            /\ events[s][Len(events[s])].message = fault[s].args[1]
            /\ pc[s] \in {"y_error", "done"}
            /\ raised[s] \in {"none", "GeneratorExit"}

C2_Witness ==
    \E s \in Sessions :
        /\ Faulted(s)
        /\ pc[s] = "done"
        /\ connected[s]
        /\ Count(events[s], "heartbeat") >= 1

\* C3: a session in which no exception was raised never holds an error event,
\* wherever the client disconnect reached it; the disconnect closes the
\* producer with CancelledError or GeneratorExit, not through the handler.
C3_DisconnectIsNotAnError ==
    \A s \in Sessions :
        ~Faulted(s) =>
            /\ Count(events[s], "error") = 0
            /\ pc[s] # "y_error"
            /\ pc[s] = "done" => ~connected[s]

C3_Witness ==
    \E s, t \in Sessions :
        /\ pc[s] = "done" /\ ~connected[s] /\ ~Faulted(s) /\ raised[s] = "CancelledError"
        /\ pc[t] = "done" /\ ~connected[t] /\ ~Faulted(t) /\ raised[t] = "GeneratorExit"

SessionState(t) == <<pc[t], events[t], connected[t], fault[t], raised[t]>>

\* a step taken by session s, or by the transport or a fault on its behalf
SessionStep(s) ==
    \/ sse_endpoint(s)
    \/ Produce(s)
    \/ RaiseFault(s)
    \/ client_disconnect(s)
    \/ close_producer(s)

Survivor(t) == connected[t] /\ ~Faulted(t) /\ pc[t] \in TryPositions

\* C4: a step of one session (its disconnect, its fault, any other) changes
\* nothing of another session; and beside a session that was disconnected or
\* faulted, a connected fault-free session has a well-ordered stream without
\* an error event and can take its next step.
C4_SessionsAreIsolated ==
    /\ [][\A s, t \in Sessions :
             s # t /\ SessionStep(s) => SessionState(t)' = SessionState(t)]_vars
    /\ [](\A s, t \in Sessions :
             (s # t /\ pc[s] # "new" /\ (~connected[s] \/ Faulted(s)) /\ Survivor(t))
                 => /\ IsStreamPrefix(Types(events[t]))
                    /\ ENABLED Produce(t))

C4_Witness ==
    \E s, t \in Sessions :
        /\ s # t
        /\ pc[s] = "done" /\ Faulted(s)
        /\ Survivor(t) /\ pc[t] = "y_heartbeat"
        /\ Count(events[t], "heartbeat") = MaxHeartbeats

Gone(s) == ~connected[s] \/ Faulted(s)

\* C5: under fair scheduling of the producer, a session that stays connected
\* and fault-free enters the heartbeat wait after the startup batch and after
\* every heartbeat, and every wait ends in a heartbeat; such a session never
\* finishes.
C5_HeartbeatsForever ==
    \A s \in Sessions :
        /\ (pc[s] \in {"y_product_hunt_data", "y_heartbeat"}) ~> (pc[s] = "sleep" \/ Gone(s))
        /\ (pc[s] = "sleep") ~> (pc[s] = "y_heartbeat" \/ Gone(s))
        /\ [](pc[s] = "done" => Gone(s))

C5_Witness ==
    \E s \in Sessions :
        /\ pc[s] = "sleep" /\ connected[s] /\ ~Faulted(s)
        /\ Count(events[s], "heartbeat") = MaxHeartbeats

\* C6: while a session is suspended in its heartbeat wait the event-loop
\* thread is free: each REST handler can run, a new session can be opened and
\* every other open session can take its next step.
C6_SleepBlocksNothing ==
    \A s \in Sessions :
        pc[s] = "sleep" =>
            /\ loop = "free"
            /\ ENABLED root
            /\ ENABLED Health
            /\ ENABLED list_tools
            /\ ENABLED Execute
            /\ \A t \in Sessions \ {s} :
                   /\ pc[t] = "new" => ENABLED sse_endpoint(t)
                   /\ (connected[t] /\ pc[t] \in OpenPositions) => ENABLED Produce(t)

C6_Witness ==
    \E s, t \in Sessions :
        /\ pc[s] = "sleep" /\ connected[s]
        /\ pc[t] = "y_connection" /\ connected[t]

RegistryReady == mcp_server # None

CredentialPresent(token) == token \notin {EnvUnset, ""}

\* C7: GET /health answers 200 with status healthy exactly when the registry
\* is initialized and the credential variable is set and non-empty; otherwise
\* it answers 503 and the detail names a precondition that failed.
C7_HealthIffReady ==
    [][\A token \in Tokens :
          health_check(token) =>
              LET r == response' IN
              /\ r.endpoint = "/health"
              /\ r.status = 200 <=> (RegistryReady /\ CredentialPresent(token))
              /\ r.status = 200 => r.body.status = "healthy"
              /\ r.status # 200 =>
                     /\ r.status = 503
                     /\ \/ r.detail = "MCP server not initialized" /\ ~RegistryReady
                        \/ r.detail = "PRODUCT_HUNT_TOKEN not configured"
                               /\ ~CredentialPresent(token)]_vars

C7_Witness ==
    /\ response.endpoint = "/health"
    /\ response.status = 200
    /\ mcp_server # None

NotReported == "<not reported>"

\* the credential state a /health response reports
ReportedCredential(r) == IF r.status = 200 THEN r.body.product_hunt_token ELSE NotReported

\* C8 as claimed: /health reports "missing" when the credential variable is
\* unset and "configured" when it is set, whatever the registry state.
C8_AsClaimed ==
    [][\A token \in Tokens :
          health_check(token) =>
              ReportedCredential(response') =
                  (IF token = EnvUnset THEN "missing" ELSE "configured")]_vars

\* C8 amended: /health never reports "missing"; it reports "configured" exactly
\* in its 200 response, that is when the registry is initialized and the
\* variable is set and non-empty; with the variable unset or empty it answers
\* 503, whose detail is about the registry when that is not initialized and
\* about the credential otherwise.
C8_CredentialReport ==
    [][\A token \in Tokens :
          health_check(token) =>
              LET r == response' IN
              /\ ReportedCredential(r) \in {"configured", NotReported}
              /\ ReportedCredential(r) = "configured"
                     <=> (RegistryReady /\ CredentialPresent(token))
              /\ ~CredentialPresent(token) =>
                     /\ r.status = 503
                     /\ r.detail = (IF RegistryReady
                                    THEN "PRODUCT_HUNT_TOKEN not configured"
                                    ELSE "MCP server not initialized")]_vars

C8_Witness ==
    /\ response.endpoint = "/health"
    /\ response.status = 503
    /\ response.detail = "PRODUCT_HUNT_TOKEN not configured"
    /\ mcp_server # None

DistinctNames(cs) == {cs[i][1] : i \in 1..Len(cs)}

\* the tool_info of the last call that registered name
LastInfo(cs, name) ==
    LET last == CHOOSE i \in 1..Len(cs) :
                    cs[i][1] = name /\ \A j \in (i + 1)..Len(cs) : cs[j][1] # name
    IN cs[last][2]

\* C9: GET /tools answers 503 while the registry is not initialized, and
\* otherwise 200 with one entry per distinct registered name, each with the
\* description registered last for it, and count the number of distinct names.
C9_ToolsListsRegistrations ==
    [][list_tools =>
          LET r == response' IN
          IF mcp_server = None
          THEN r.status = 503
          ELSE /\ r.status = 200
               /\ LET tl == r.body.tools IN
                  /\ {tl[i].name : i \in 1..Len(tl)} = DistinctNames(calls)
                  /\ \A i, j \in 1..Len(tl) : i # j => tl[i].name # tl[j].name
                  /\ \A i \in 1..Len(tl) :
                         tl[i].description = description(LastInfo(calls, tl[i].name))
                  /\ r.body.count = Cardinality(DistinctNames(calls))]_vars

JsonObjects == {{}, {<<"x", 1>>}}

\* C10: POST /tools/{tool_name} sent as application/json with a JSON object
\* answers 503 while the registry is not initialized and otherwise 200 with
\* the requested name, status executed and the object sent, for registered
\* and unregistered names alike.
C10_ExecuteEchoes ==
    [][\A tool_name \in ToolNames \cup {UnknownName}, obj \in JsonObjects :
          execute_tool(tool_name, "application/json", json_dumps(obj)) =>
              LET r == response' IN
              IF mcp_server = None
              THEN r.status = 503
              ELSE /\ r.status = 200
                   /\ r.body.tool = tool_name
                   /\ r.body.status = "executed"
                   /\ r.body.input = obj]_vars

C10_Witness ==
    /\ response.endpoint = "/tools/{tool_name}"
    /\ response.status = 200
    /\ response.body.tool = UnknownName
    /\ response.body.input = {<<"x", 1>>}
    /\ mcp_server # None
    /\ UnknownName \notin registered_names(mcp_server)
    /\ registered_names(mcp_server) # {}

\* a sequence of event types that is a prefix of
\* connection, server_info, product_hunt_data, heartbeat, heartbeat, ...
IsStreamPrefixWithoutTools(t) ==
    \A i \in 1..Len(t) :
        CASE i = 1 -> t[i] = "connection"
          [] i = 2 -> t[i] = "server_info"
          [] i = 3 -> t[i] = "product_hunt_data"
          [] OTHER -> t[i] = "heartbeat"

\* C11: while the registry is not initialized (so it was not when the session
\* was opened, nor when it reached the tools step) a session holds no tools
\* event; its events are connection, server_info, product_hunt_data and then
\* heartbeats; it holds an error event only if an exception was raised, and
\* after server_info its next step is the product_hunt_data yield.
C11_NoRegistryNoToolsNoError ==
    \A s \in Sessions :
        (mcp_server = None /\ pc[s] # "new") =>
            /\ Count(events[s], "tools") = 0
            /\ IsStreamPrefixWithoutTools(Types(SelectSeq(events[s], NotError)))
            /\ Count(events[s], "error") = (IF Faulted(s) THEN 1 ELSE 0)
            /\ (pc[s] = "y_server_info" /\ connected[s]) =>
                   /\ ENABLED yield_sample_data(s)
                   /\ ~ENABLED yield_tools(s)

C11_Witness ==
    /\ mcp_server = None
    /\ \E s \in Sessions :
           /\ Types(events[s]) = <<"connection", "server_info", "product_hunt_data",
                                   "heartbeat">>
           /\ connected[s]
           /\ pc[s] = "sleep"

\* the (name, description) pairs the registry holds, from the calls made on it
RegistryPairs == {<<n, description(LastInfo(calls, n))>> : n \in DistinctNames(calls)}

PayloadPairs(data) == {<<data[i].name, data[i].description>> : i \in 1..Len(data)}

\* C12: a session that finds the registry initialized after server_info (as
\* every session opened with the registry initialized does) emits a tools
\* event next, before product_hunt_data, whose payload is the registry's
\* (name, description) pairs and the list GET /tools returns.
C12_ToolsEventWhenInitialized ==
    [][\A s \in Sessions :
          (mcp_server # None /\ pc[s] = "y_server_info" /\ Produce(s)) =>
              LET ev == events'[s][Len(events'[s])] IN
              /\ pc'[s] = "y_tools"
              /\ ev.type = "tools"
              /\ PayloadPairs(ev.data) = RegistryPairs
              /\ ev.data = tools_response(mcp_server).body.tools]_vars

\* the registration routines that ran and returned
CompletedRoutines ==
    {init_log[i].call : i \in {j \in 1..Len(init_log) : init_log[j].outcome = "returned"}}

AllRoutines == {Routines[i] : i \in 1..Len(Routines)}

ReadinessEndpoints == {"/health", "/tools", "/tools/{tool_name}"}

\* C13: whenever /health, /tools or POST /tools/{tool_name} answers 200, that
\* is whenever its readiness check `mcp_server is None` lets it through, all
\* six registration routines have completed.
C13_ReadyMeansAllRegistered ==
    (response.endpoint \in ReadinessEndpoints /\ response.status = 200)
        => AllRoutines \subseteq CompletedRoutines

\* how often init_log records a run of the constructor or of a routine
Runs(log, call) == Cardinality({i \in 1..Len(log) : log[i].call = call})

NoneRaised(log) == \A i \in 1..Len(log) : log[i].outcome = "returned"

\* C17: the first call of initialize_mcp_server creates one registry and runs
\* the registration routines in order, none of them twice and each of them
\* once when none raises; a later call leaves the registry reference, its
\* tools and the record of routines run as they are; and the reference, once
\* bound, is never None again.
C17_InitializeOnce ==
    /\ [][Startup =>
             IF mcp_server = None
             THEN /\ mcp_server' # None
                  /\ Runs(init_log', "FastMCP") = 1
                  /\ \A r \in AllRoutines : Runs(init_log', r) <= 1
                  /\ \A i \in 2..Len(init_log') : init_log'[i].call = Routines[i - 1]
                  /\ NoneRaised(init_log') => \A r \in AllRoutines : Runs(init_log', r) = 1
             ELSE /\ mcp_server' = mcp_server
                  /\ calls' = calls
                  /\ init_log' = init_log]_vars
    /\ [][mcp_server # None => mcp_server' # None]_vars

C17_Witness ==
    /\ mcp_server # None
    /\ Len(mcp_server.tools) = MaxCalls
    /\ NoneRaised(init_log)
    /\ \A r \in AllRoutines : Runs(init_log, r) = 1

\* the bodies that are the serialization of a JSON object
WellFormedBodies == {json_dumps(obj) : obj \in JsonObjects}

\* C18: with the registry initialized, POST /tools/{tool_name} parses the body
\* only for the content-type application/json: with any other or no
\* content-type it answers 200 and echoes the empty object whatever the body;
\* with application/json it answers 500 with a detail message when the body
\* does not parse, and 200 with the parsed object when it does.
C18_BodyReadOnlyForJson ==
    [][\A tool_name \in ToolNames \cup {UnknownName}, content_type \in ContentTypes,
          raw \in RawBodies :
          (mcp_server # None /\ execute_tool(tool_name, content_type, raw)) =>
              LET r == response' IN
              IF content_type # "application/json"
              THEN r.status = 200 /\ r.body.input = {}
              ELSE IF raw \in WellFormedBodies
              THEN r.status = 200 /\ json_dumps(r.body.input) = raw
              ELSE r.status = 500 /\ r.detail[1] = "Tool execution failed: "]_vars

C18_Witness ==
    /\ mcp_server # None
    /\ response.endpoint = "/tools/{tool_name}"
    /\ response.status = 500

\* C14: in every session, of two events the one emitted later never carries
\* the smaller timestamp.
C14_TimestampsNonDecreasing ==
    \A s \in Sessions :
        \A i, j \in 1..Len(events[s]) :
            i < j => events[s][i].timestamp <= events[s][j].timestamp

\* C15: no step of a request handler (GET /, GET /health, GET /tools,
\* POST /tools/{tool_name}, a step of an SSE session) changes the registry
\* reference or the tools registered in it, and once startup has bound the
\* registry no step at all changes them.
C15_HandlersLeaveRegistry ==
    [][(Handler \/ mcp_server # None) => UNCHANGED <<mcp_server, calls>>]_vars

C15_Witness ==
    /\ mcp_server # None
    /\ Len(mcp_server.tools) = 2
    /\ mcp_server.tools = register_all(<<>>, calls)
    /\ response.endpoint = "/tools/{tool_name}"
    /\ response.status = 200
    /\ pc[Followed] = "y_heartbeat"

\* C16: once the client of a session has disconnected, no step appends an
\* event of any type to the stream of that session, and wherever the producer
\* was suspended (before its first yield, in the startup batch, in the
\* heartbeat wait, after a heartbeat or at the error yield) it eventually
\* terminates.
C16_DisconnectStopsProducer ==
    /\ [][\A s \in Sessions :
             (pc[s] # "new" /\ ~connected[s]) => events'[s] = events[s]]_vars
    /\ \A s \in Sessions :
           (pc[s] \in OpenPositions /\ ~connected[s]) ~> (pc[s] = "done")
    /\ \A s \in Sessions :
           [](pc[s] = "done" /\ ~connected[s] => ~ENABLED Produce(s))

C16_Witness ==
    \E s, t \in Sessions :
        /\ s # t
        /\ pc[s] = "done" /\ ~connected[s] /\ raised[s] = "CancelledError"
        /\ Count(events[s], "heartbeat") = MaxHeartbeats
        /\ pc[t] = "y_heartbeat" /\ connected[t]

====
